---- MODULE Spec2Model ----
(***************************************************************************)
(* Model of trace_parser.py (Home Assistant trace parser): the alias       *)
(* mapper load_automation, the trace normalizer process_trace, the         *)
(* formatter format_output and the command line entry point main.          *)
(*                                                                         *)
(* Strings are sequences of one-character strings, so that str.replace,    *)
(* the `in` substring test, slicing and lstrip are computed character by   *)
(* character as Python computes them.                                      *)
(***************************************************************************)
EXTENDS Integers, Sequences, FiniteSets, TLC

VARIABLES
    automation,     \* the definition document handed to the last call
    alias_mapping,  \* load_automation's result / process_trace's alias_mapping
    trace_data,     \* the event table trace_data['trace']['trace'] (its values)
    output_file,    \* TRUE when an output destination is given
    output,         \* the list process_trace returned
    outfile,        \* the content of the output destination (a text)
    written,        \* the text each completed call wrote to the destination
    pc              \* the last call and how it ended

vars == <<automation, alias_mapping, trace_data, output_file, output, outfile, written, pc>>

----------------------------------------------------------------------------
(* Bounds of the model *)

\* steps, records and scalars under the top-level key of a definition document
MaxSteps == 3
\* elements of one list of a definition document
MaxItems == 2
\* events of one trace table
MaxEvents == 3
\* successive calls against one output destination
MaxCalls == 2

----------------------------------------------------------------------------
(* Text: Python str as a sequence of characters *)

SL == <<"/">>
W_alias == <<"a", "l", "i", "a", "s">>
W_sequence == <<"s", "e", "q", "u", "e", "n", "c", "e">>
W_action == <<"a", "c", "t", "i", "o", "n">>
W_actions == W_action \o <<"s">>
W_condition == <<"c", "o", "n", "d", "i", "t", "i", "o", "n">>
W_conditions == W_condition \o <<"s">>
W_trigger == <<"t", "r", "i", "g", "g", "e", "r">>
W_triggers == W_trigger \o <<"s">>
W_repeat == <<"r", "e", "p", "e", "a", "t">>
W_then == <<"t", "h", "e", "n">>
W_else == <<"e", "l", "s", "e">>
W_if == <<"i", "f">>
W_mode == <<"m", "o", "d", "e">>

Digits == <<"0", "1", "2", "3", "4", "5", "6", "7", "8", "9">>

\* str(n) for a natural number
RECURSIVE IntToStr(_)
IntToStr(n) ==
    IF n < 10 THEN <<Digits[n + 1]>>
    ELSE IntToStr(n \div 10) \o <<Digits[(n % 10) + 1]>>

\* s[n:] of Python, n >= 0
Drop(s, n) == IF n >= Len(s) THEN <<>> ELSE SubSeq(s, n + 1, Len(s))

StartsWith(s, p) == Len(p) <= Len(s) /\ SubSeq(s, 1, Len(p)) = p

\* s.lstrip('/'): every leading '/' goes
RECURSIVE LStripSlash(_)
LStripSlash(s) ==
    IF s # <<>> /\ s[1] = "/" THEN LStripSlash(Tail(s)) ELSE s

\* sub in s
RECURSIVE Contains(_, _)
Contains(s, sub) ==
    IF Len(s) < Len(sub) THEN FALSE
    ELSE StartsWith(s, sub) \/ Contains(Tail(s), sub)

\* s.replace(old, new) with count = 1: only the leftmost occurrence
RECURSIVE ReplaceFirst(_, _, _)
ReplaceFirst(s, old, new) ==
    IF Len(s) < Len(old) THEN s
    ELSE IF StartsWith(s, old) THEN new \o Drop(s, Len(old))
    ELSE <<s[1]>> \o ReplaceFirst(Tail(s), old, new)

\* s.replace(old, new): every non-overlapping occurrence, left to right
RECURSIVE Replace(_, _, _)
Replace(s, old, new) ==
    IF Len(s) < Len(old) THEN s
    ELSE IF StartsWith(s, old) THEN new \o Replace(Drop(s, Len(old)), old, new)
    ELSE <<s[1]>> \o Replace(Tail(s), old, new)

\* f"{a}/{b}"
Slash(a, b) == a \o SL \o b

----------------------------------------------------------------------------
(* Definition documents: what yaml.safe_load returns.  A node is a scalar,  *)
(* a list or a dict; items holds <<key, value>> pairs in document order     *)
(* (the key of a list element is empty and unused).                         *)

Scalar(v) == [kind |-> "scalar", val |-> v, items |-> <<>>]
Null == [kind |-> "null", val |-> <<>>, items |-> <<>>]
ListOf(f) == [kind |-> "list", val |-> <<>>, items |-> [i \in 1..Len(f) |-> <<<<>>, f[i]>>]]
DictOf(fs) == [kind |-> "dict", val |-> <<>>, items |-> fs]

\* Python's None and "" are both falsy, and the code only ever tests the
\* truth of an alias, so None is the empty text.
None == <<>>

\* d.get('alias'): the value under the key, None without it.  The documents
\* of the model give aliases scalar values.
RECURSIVE GetAlias(_, _)
GetAlias(fs, i) ==
    IF i > Len(fs) THEN None
    ELSE IF fs[i][1] = W_alias THEN fs[i][2].val
    ELSE GetAlias(fs, i + 1)

\* mapping[k] = v
Put(mapping, k, v) ==
    [x \in (DOMAIN mapping) \cup {k} |-> IF x = k THEN v ELSE mapping[x]]

EmptyMapping == [x \in {} |-> <<>>]

\* path[len(nearest_alias_path):].lstrip('/') if nearest_alias_path else path
PathSublevel(path, nearest_alias_path) ==
    IF nearest_alias_path # None
    THEN LStripSlash(Drop(path, Len(nearest_alias_path)))
    ELSE path

\* f"{nearest_alias}//{path_sublevel}"
InheritedLabel(nearest_alias, path_sublevel) ==
    nearest_alias \o <<"/", "/">> \o path_sublevel

\* a list element that forgets to hand its own alias down
ListInherited_keep(local_alias, path, nearest_alias, nearest_alias_path) ==
    [alias |-> nearest_alias, path |-> nearest_alias_path]

\* the context a list element hands to its children: its own alias when it
\* has one, else the context it was given
ListInherited(local_alias, path, nearest_alias, nearest_alias_path) ==
    IF local_alias # None
    THEN [alias |-> local_alias, path |-> path]
    ELSE [alias |-> nearest_alias, path |-> nearest_alias_path]

\* the label of a list element
ListLabel(local_alias, path, nearest_alias, nearest_alias_path) ==
    IF local_alias # None THEN local_alias
    ELSE IF nearest_alias # None
         THEN InheritedLabel(nearest_alias, PathSublevel(path, nearest_alias_path))
         ELSE path

\* a record node without the final `elif base` entry
DictEntry_noelif(mapping, base, local_alias, nearest_alias, nearest_alias_path) ==
    IF local_alias # None /\ base # <<>> THEN Put(mapping, base, local_alias)
    ELSE IF nearest_alias # None /\ base # <<>>
    THEN Put(mapping, base,
             InheritedLabel(nearest_alias, PathSublevel(base, nearest_alias_path)))
    ELSE mapping

\* the entry a record node at base gets: its alias, else the inherited
\* label, else (elif base) its path; nothing at an empty base
DictEntry(mapping, base, local_alias, nearest_alias, nearest_alias_path) ==
    IF local_alias # None /\ base # <<>> THEN Put(mapping, base, local_alias)
    ELSE IF nearest_alias # None /\ base # <<>>
    THEN Put(mapping, base,
             InheritedLabel(nearest_alias, PathSublevel(base, nearest_alias_path)))
    ELSE IF base # <<>> THEN Put(mapping, base, base)
    ELSE mapping

RECURSIVE map_steps(_, _, _, _, _)
RECURSIVE map_list(_, _, _, _, _, _)
RECURSIVE map_step_items(_, _, _, _, _, _)
RECURSIVE map_dict_items(_, _, _, _, _, _)

\* for idx, step in enumerate(steps): ...
map_list(base, items, i, mapping, nearest_alias, nearest_alias_path) ==
    IF i > Len(items) THEN mapping
    ELSE
        LET step == items[i][2]
            path == IF base # <<>> THEN Slash(base, IntToStr(i - 1))
                    ELSE Slash(W_sequence, IntToStr(i - 1))
            local_alias == IF step.kind = "dict" THEN GetAlias(step.items, 1) ELSE None
            m1 == Put(mapping, path,
                      ListLabel(local_alias, path, nearest_alias, nearest_alias_path))
            inh == ListInherited(local_alias, path, nearest_alias, nearest_alias_path)
            m2 == IF step.kind = "dict"
                  THEN map_step_items(path, step.items, 1, m1, inh.alias, inh.path)
                  ELSE m1
        IN map_list(base, items, i + 1, m2, nearest_alias, nearest_alias_path)

\* for key, value in step.items(): map_steps(f"{path}/{key}", value, ...)
map_step_items(path, fs, j, mapping, inherited_alias, inherited_alias_path) ==
    IF j > Len(fs) THEN mapping
    ELSE map_step_items(path, fs, j + 1,
            map_steps(Slash(path, fs[j][1]), fs[j][2], mapping,
                      inherited_alias, inherited_alias_path),
            inherited_alias, inherited_alias_path)

\* for key, value in steps.items(): map_steps(f"{base}/{key}" if base else key, ...)
map_dict_items(base, fs, j, mapping, inherited_alias, inherited_alias_path) ==
    IF j > Len(fs) THEN mapping
    ELSE map_dict_items(base, fs, j + 1,
            map_steps(IF base # <<>> THEN Slash(base, fs[j][1]) ELSE fs[j][1],
                      fs[j][2], mapping, inherited_alias, inherited_alias_path),
            inherited_alias, inherited_alias_path)

map_steps(base, steps, mapping, nearest_alias, nearest_alias_path) ==
    IF steps.kind = "list"
    THEN map_list(base, steps.items, 1, mapping, nearest_alias, nearest_alias_path)
    ELSE IF steps.kind = "dict"
    THEN
        LET local_alias == GetAlias(steps.items, 1)
            own == local_alias # None /\ base # <<>>
            m1 == DictEntry(mapping, base, local_alias, nearest_alias, nearest_alias_path)
            inherited_alias == IF own THEN local_alias ELSE nearest_alias
            inherited_alias_path == IF own THEN base ELSE nearest_alias_path
        IN map_dict_items(base, steps.items, 1, m1, inherited_alias, inherited_alias_path)
    ELSE mapping

\* for key, value in automation.items():
\*     if key == 'sequence' or isinstance(value, (list, dict)): map_steps(key, value, mapping)
RECURSIVE map_top(_, _, _)
map_top(fs, j, mapping) ==
    IF j > Len(fs) THEN mapping
    ELSE map_top(fs, j + 1,
            IF fs[j][1] = W_sequence \/ fs[j][2].kind \in {"list", "dict"}
            THEN map_steps(fs[j][1], fs[j][2], mapping, None, None)
            ELSE mapping)

\* automation.items() exists only for a dict: a list, a scalar and None
\* raise AttributeError
HasItems(doc) == doc.kind = "dict"

load_automation(doc) ==
    IF HasItems(doc)
    THEN [raised |-> FALSE, mapping |-> map_top(doc.items, 1, EmptyMapping)]
    ELSE [raised |-> TRUE, mapping |-> EmptyMapping]

----------------------------------------------------------------------------
(* Trace events and the normalizer process_trace.  An element of the event  *)
(* table is a dict (kind "dict") or something else; a dict may lack each of *)
(* its keys.  A timestamp is the instant it denotes, counted in tenths of a *)
(* second since the epoch.  result and error are empty when absent or       *)
(* falsy, which the code does not tell apart.                               *)

\* one value of trace_data['trace']['trace']: a list of events or a bare event
ListEntry(evs) == [islist |-> TRUE, events |-> evs]
BareEntry(ev) == [islist |-> FALSE, events |-> <<ev>>]

\* events = event if isinstance(event, list) else [event]
EntryEvents(entry) == entry.events

\* if not isinstance(ev, dict) or 'path' not in ev: continue
Kept(ev) == ev.kind = "dict" /\ ev.haspath

RECURSIVE Filter(_)
Filter(evs) ==
    IF evs = <<>> THEN <<>>
    ELSE (IF Kept(Head(evs)) THEN <<Head(evs)>> ELSE <<>>) \o Filter(Tail(evs))

\* Collect all events in a single list
RECURSIVE Collect(_)
Collect(table) ==
    IF table = <<>> THEN <<>>
    ELSE Filter(EntryEvents(Head(table))) \o Collect(Tail(table))

\* the sort key with the sub-second part dropped
SortKey_seconds(ev) == IF ev.hasts THEN ev.timestamp \div 10 ELSE 0

\* key=lambda ev: datetime.fromisoformat(ev.get('timestamp')).timestamp()
\*                if 'timestamp' in ev else 0
SortKey(ev) == IF ev.hasts THEN ev.timestamp ELSE 0

\* list.sort is stable: an element goes behind every element whose key is
\* not greater
SortedInsert(sorted, ev) ==
    LET n == Cardinality({i \in 1..Len(sorted) : SortKey(sorted[i]) <= SortKey(ev)})
    IN SubSeq(sorted, 1, n) \o <<ev>> \o SubSeq(sorted, n + 1, Len(sorted))

RECURSIVE SortEvents(_, _)
SortEvents(sorted, evs) ==
    IF evs = <<>> THEN sorted
    ELSE SortEvents(SortedInsert(sorted, Head(evs)), Tail(evs))

\* the six variations, in the order of the list
Variations(path) ==
    << Replace(path, W_action \o SL, W_actions \o SL),
       Replace(path, W_actions \o SL, W_action \o SL),
       Replace(path, W_condition \o SL, W_conditions \o SL),
       Replace(path, W_conditions \o SL, W_condition \o SL),
       Replace(path, W_trigger \o SL, W_triggers \o SL),
       Replace(path, W_triggers \o SL, W_trigger \o SL) >>

\* alias_mapping.get(path)
Get(mapping, k) == IF k \in DOMAIN mapping THEN mapping[k] ELSE None

\* for var in variations: if var in alias_mapping: alias = alias_mapping[var]; break
RECURSIVE FirstVariation(_, _, _, _)
FirstVariation(mapping, variations, i, alias) ==
    IF i > Len(variations) THEN alias
    ELSE IF variations[i] \in DOMAIN mapping THEN mapping[variations[i]]
    ELSE FirstVariation(mapping, variations, i + 1, alias)

\* a resolution that never tries the variations
ResolveAlias_direct(mapping, path) ==
    IF Get(mapping, path) # None THEN Get(mapping, path) ELSE path

\* Map correct alias (show friendly alias, not path)
ResolveAlias(mapping, path) ==
    LET alias == Get(mapping, path)
        alias2 == IF alias = None
                  THEN FirstVariation(mapping, Variations(path), 1, alias)
                  ELSE alias
    IN IF alias2 = None THEN path ELSE alias2

\* a counter that only starts once
NextIteration_once(current_iteration, path) ==
    IF Contains(path, W_repeat) /\ current_iteration = 0
    THEN current_iteration + 1
    ELSE current_iteration

\* if 'repeat' in path: current_iteration += 1
NextIteration(current_iteration, path) ==
    IF Contains(path, W_repeat) THEN current_iteration + 1 ELSE current_iteration

\* f"\n[ITERATION {current_iteration}]"
MarkerText(n) == <<"\n", "[ITERATION ">> \o IntToStr(n) \o <<"]">>

Marker(n) ==
    [kind |-> "marker", text |-> MarkerText(n), timestamp |-> <<>>, alias |-> <<>>,
     path |-> <<>>, data |-> <<>>, error |-> <<>>]

\* timestamp.strftime('%Y-%m-%d %H:%M:%S.%f %Z') in the zone tz
Render(ts, tz) == IntToStr(ts) \o <<" ">> \o tz

UTC == <<"U", "T", "C">>
K_changed_variables == <<"changed_variables">>
K_result == <<"result">>

\* Build log line: data holds changed_variables when the event has the key
\* and result when it is truthy; error stays empty unless truthy
Line(ev, alias, tz) ==
    [kind |-> "line", text |-> <<>>,
     timestamp |-> Render(ev.timestamp, tz),
     alias |-> alias,
     path |-> ev.path,
     data |-> (IF ev.hascv THEN <<<<K_changed_variables, ev.changed_variables>>>> ELSE <<>>)
              \o (IF ev.result # <<>> THEN <<<<K_result, ev.result>>>> ELSE <<>>),
     error |-> ev.error]

\* for ev in event_list: ...; ev['timestamp'] raises KeyError for an event
\* without the key, and the call ends there
RECURSIVE BuildOutput(_, _, _, _, _)
BuildOutput(evs, mapping, tz, current_iteration, out) ==
    IF evs = <<>> THEN [raised |-> FALSE, output |-> out]
    ELSE IF ~Head(evs).hasts THEN [raised |-> TRUE, output |-> out]
    ELSE BuildOutput(Tail(evs), mapping, tz,
                     NextIteration(current_iteration, Head(evs).path),
                     (IF Contains(Head(evs).path, W_repeat)
                      THEN Append(out, Marker(NextIteration(current_iteration, Head(evs).path)))
                      ELSE out)
                     \o <<Line(Head(evs), ResolveAlias(mapping, Head(evs).path), tz)>>)

\* "\n  " + "\n  ".join(details), details = [f"{key}: {value}", ...]
RECURSIVE Details(_)
Details(data) ==
    IF data = <<>> THEN <<>>
    ELSE <<"\n  ">> \o data[1][1] \o <<": ">> \o data[1][2] \o Details(Tail(data))

FormatEntry(entry) ==
    IF entry.kind = "marker" THEN entry.text
    ELSE entry.timestamp \o <<" | ">> \o entry.alias \o <<" | ">> \o entry.path
         \o Details(entry.data)
         \o (IF entry.error # <<>> THEN <<"\n  [ERROR] ">> \o entry.error ELSE <<>>)

\* format_output(processed_data): one text per entry
format_output(processed_data) ==
    [i \in 1..Len(processed_data) |-> FormatEntry(processed_data[i])]

\* "\n".join(lines)
RECURSIVE JoinLines(_)
JoinLines(lines) ==
    IF lines = <<>> THEN <<>>
    ELSE IF Len(lines) = 1 THEN lines[1]
    ELSE lines[1] \o <<"\n">> \o JoinLines(Tail(lines))

\* the mode process_trace opens the destination with
NormalizerMode_w == "w"
NormalizerMode == "a"

\* the mode main opens the destination with
MainMode_a == "a"
MainMode == "w"

\* with open(output_file, mode) as f: f.write(text)
FileWrite(content, mode, text) == IF mode = "a" THEN content \o text ELSE text

\* if output_file: f.write("\n".join(formatted_output)); return output
WriteAndReturn(out, text, dest, file) ==
    [raised |-> FALSE, output |-> out,
     file |-> IF dest THEN FileWrite(file, NormalizerMode, text) ELSE file,
     text |-> IF dest THEN text ELSE <<>>]

Finish(r, dest, file) ==
    IF r.raised THEN [raised |-> TRUE, output |-> <<>>, file |-> file, text |-> <<>>]
    ELSE WriteAndReturn(r.output, JoinLines(format_output(r.output)), dest, file)

\* process_trace(trace_file, alias_mapping, output_file, timezone) on the
\* destination content file: what it returns or that it raised, and the
\* destination afterwards
process_trace(table, mapping, dest, tz, file) ==
    Finish(BuildOutput(SortEvents(<<>>, Collect(table)), mapping, tz, 0, <<>>), dest, file)

----------------------------------------------------------------------------
(* main: the header written to the destination, then process_trace.  The    *)
(* pretty-printed document and mapping are one token each.                  *)

\* if not friendly_name or not main_alias or friendly_name != main_alias
Alert(friendly_name, main_alias) ==
    friendly_name = None \/ main_alias = None \/ friendly_name # main_alias

\* output_structure + "\n\n"
Header(doc, friendly_name) ==
    <<"[PARAMETERS]", "\n">>
    \o (IF Alert(friendly_name, GetAlias(doc.items, 1)) THEN <<"[ALERT]", "\n">> ELSE <<>>)
    \o <<"\n[LOADED YAML - FULL STRUCTURE]\n", "<yaml_structure>",
         "\n\n[IDENTIFIED ALIAS MAPPING]\n", "<mapping_structure>", "\n\n">>

\* with open(output_file, 'w') as f: f.write(output_structure + "\n\n")
WriteHeader(file, dest, header) ==
    IF dest THEN FileWrite(file, MainMode, header) ELSE file

----------------------------------------------------------------------------
(* The definition documents drawn as inputs *)

A == <<"A">>
B == <<"B">>
Main == <<"M", "a", "i", "n">>

\* the keys of a step's sub-blocks, in document order
FieldKeys == <<W_then, W_else>>

AliasChoices == {None, A, B}

\* a step record: its alias (when it has one) and then its sub-blocks
StepOf(a, f) ==
    DictOf((IF a = None THEN <<>> ELSE <<<<W_alias, Scalar(a)>>>>)
           \o [i \in 1..Len(f) |-> <<FieldKeys[i], f[i]>>])

\* Elements(n): the list elements and records holding n nodes: a scalar,
\* a list nested in a list, or a step record with its sub-blocks.
\* Values(n): what stands under a key: such a node, or a list of them
\* (the list itself is not counted).
\* Forests(n, m, v): the sequences of at most m values (v) or elements, n
\* nodes in all.
RECURSIVE Elements(_)
RECURSIVE Values(_)
RECURSIVE Forests(_, _, _)
Elements(n) ==
    IF n = 1
    THEN {Scalar(<<"x">>), ListOf(<<Scalar(<<"x">>)>>)}
         \cup {StepOf(a, <<>>) : a \in AliasChoices}
    ELSE {StepOf(a, f) : a \in AliasChoices, f \in Forests(n - 1, Len(FieldKeys), TRUE)}

Values(n) ==
    Elements(n) \cup {ListOf(f) : f \in Forests(n, MaxItems, FALSE)}

Forests(n, m, v) ==
    IF n = 0 THEN {<<>>}
    ELSE IF m = 0 THEN {}
    ELSE UNION {{<<t>> \o f : t \in (IF v THEN Values(k) ELSE Elements(k)),
                              f \in Forests(n - k, m - 1, v)} : k \in 1..n}

\* {alias: ..., mode: single, action: t}
TopDoc(a, key, t) ==
    DictOf((IF a = None THEN <<>> ELSE <<<<W_alias, Scalar(a)>>>>)
           \o <<<<W_mode, Scalar(<<"x">>)>>, <<key, t>>>>)

\* documents whose top level is not a record
Malformed ==
    {Null, Scalar(<<"x">>), ListOf(<<>>), ListOf(<<StepOf(A, <<>>)>>)}

\* further documents: a top-level `sequence` key, and the malformed ones
OtherDocuments ==
    {TopDoc(None, W_sequence, t) : t \in Values(1)} \cup Malformed

----------------------------------------------------------------------------
(* The traces and mappings drawn as inputs *)

Ev(path, hasts, ts) ==
    [kind |-> "dict", haspath |-> TRUE, path |-> path, hasts |-> hasts, timestamp |-> ts,
     hascv |-> FALSE, changed_variables |-> <<>>, result |-> <<>>, error |-> <<>>]

\* a dict without a path, and an element that is no dict
NoPathEv == [Ev(<<>>, TRUE, 11) EXCEPT !.haspath = FALSE]
NonDictEv == [Ev(<<>>, FALSE, 0) EXCEPT !.kind = "other", !.haspath = FALSE]

\* an event with changed_variables, a result and an error
FullEv(path, ts) ==
    [Ev(path, TRUE, ts) EXCEPT !.hascv = TRUE, !.changed_variables = <<"x">>,
                               !.result = <<"r">>, !.error = <<"e">>]

P_action0 == Slash(W_action, <<"0">>)
P_action0then0 == Slash(Slash(P_action0, W_then), <<"0">>)
P_action0then1 == Slash(Slash(P_action0, W_then), <<"1">>)
P_action1 == Slash(W_action, <<"1">>)
P_actions0 == Slash(W_actions, <<"0">>)
P_repeat == Slash(Slash(Slash(P_action1, W_repeat), W_sequence), <<"0">>)

W_light == <<"T", "u", "r", "n", " ", "o", "n", " ", "l", "i", "g", "h", "t">>

\* instants, in tenths of a second
Stamps == {11, 12, 23}

SortEventSet ==
    {Ev(p, TRUE, t) : p \in {P_action0, P_repeat}, t \in Stamps}
    \cup {Ev(P_action0, FALSE, 0), NoPathEv}

\* the ways to spread n events over the entries of a table: each entry a
\* bare event (FALSE, 1) or a list of k events (TRUE, k)
RECURSIVE Groupings(_)
Groupings(n) ==
    IF n = 0 THEN {<<>>}
    ELSE {<<<<FALSE, 1>>>> \o g : g \in Groupings(n - 1)}
         \cup UNION {{<<<<TRUE, k>>>> \o g : g \in Groupings(n - k)} : k \in 1..n}

\* the table that holds the events evs spread as g says
RECURSIVE MakeTable(_, _)
MakeTable(evs, g) ==
    IF g = <<>> THEN <<>>
    ELSE <<IF g[1][1] THEN ListEntry(SubSeq(evs, 1, g[1][2])) ELSE BareEntry(evs[1])>>
         \o MakeTable(SubSeq(evs, g[1][2] + 1, Len(evs)), Tail(g))

SortMapping == [x \in {P_action0, P_repeat} |-> IF x = P_action0 THEN W_light ELSE x]

P_trigger0 == Slash(W_trigger, <<"0">>)
P_triggers0 == Slash(W_triggers, <<"0">>)
\* action/0/if/condition/0 and its two rewritings
P_if == Slash(Slash(Slash(P_action0, W_if), W_condition), <<"0">>)
P_if_actions == Slash(Slash(Slash(P_actions0, W_if), W_condition), <<"0">>)
P_if_conditions == Slash(Slash(Slash(P_action0, W_if), W_conditions), <<"0">>)
\* action/0/action/1, with its first and with both `action/` rewritten
P_twice == Slash(P_action0, P_action1)
P_twice_first == Slash(P_actions0, P_action1)
P_twice_every == Slash(P_actions0, Slash(W_actions, <<"1">>))

AliasPaths == {P_action0, P_actions0, P_trigger0, P_if, P_twice, P_repeat}

MapKeys ==
    {P_action0, P_actions0, P_triggers0, P_if_actions, P_if_conditions,
     P_twice_first, P_twice_every}

\* the label of a key: the specification's "Turn on light" for actions/0
LabelOf(k) == IF k = P_actions0 THEN W_light ELSE <<"#">> \o k

AliasMappings == {[k \in K |-> LabelOf(k)] : K \in SUBSET MapKeys}

\* {alias: Main, mode: x, action: [{alias: A, then: [{}, {alias: B}]}]}
ExampleDoc ==
    TopDoc(Main, W_action,
           ListOf(<<StepOf(A, <<ListOf(<<StepOf(None, <<>>), StepOf(B, <<>>)>>)>>)>>))

SampleDocs == {ExampleDoc, TopDoc(None, W_action, ListOf(<<StepOf(None, <<>>)>>)),
               ListOf(<<StepOf(A, <<>>)>>)}

SampleTraces ==
    { <<BareEntry(FullEv(P_action0, 11))>>,
      <<ListEntry(<<Ev(P_repeat, TRUE, 12), Ev(P_repeat, TRUE, 23)>>),
        BareEntry(Ev(P_action0then0, TRUE, 11))>>,
      <<BareEntry(Ev(P_action0, FALSE, 0)), ListEntry(<<NonDictEv>>)>> }

----------------------------------------------------------------------------
(* The program *)

Idle == [op |-> "none", status |-> "idle", calls |-> 0]

Init ==
    /\ automation = Null
    /\ alias_mapping = EmptyMapping
    /\ trace_data = <<>>
    /\ output_file = FALSE
    /\ output = <<>>
    /\ outfile = <<>>
    /\ written = <<>>
    /\ pc = Idle

Ended(op, raised) ==
    [op |-> op, status |-> IF raised THEN "raised" ELSE "returned", calls |-> pc.calls + 1]

\* mapping = load_automation(yaml_file)
LoadAutomationCall(doc) ==
    \E r \in {load_automation(doc)} :
       /\ automation' = doc
       /\ alias_mapping' = r.mapping
       /\ pc' = Ended("load_automation", r.raised)
       /\ UNCHANGED <<trace_data, output_file, output, outfile, written>>

\* output = process_trace(trace_file, alias_mapping, output_file, timezone)
ProcessTraceCall(table, mapping, dest) ==
    \E r \in {process_trace(table, mapping, dest, UTC, outfile)} :
       /\ trace_data' = table
       /\ alias_mapping' = mapping
       /\ output_file' = dest
       /\ output' = r.output
       /\ outfile' = r.file
       /\ written' = IF dest /\ ~r.raised
                     THEN Append(written, [op |-> "process_trace", text |-> r.text])
                     ELSE written
       /\ pc' = Ended("process_trace", r.raised)
       /\ UNCHANGED automation

\* main() with the arguments yaml_file, trace_log and -o; friendly_name is
\* what the look-up into the trace's first trigger/0 event gave (None when
\* it failed)
MainCall(doc, table, dest, friendly_name) ==
    \E m \in {load_automation(doc)} :
        IF m.raised
        THEN /\ automation' = doc
             /\ pc' = Ended("main", TRUE)
             /\ UNCHANGED <<alias_mapping, trace_data, output_file, output, outfile, written>>
        ELSE \E r \in {process_trace(table, m.mapping, dest, UTC,
                                     WriteHeader(outfile, dest, Header(doc, friendly_name)))} :
             /\ automation' = doc
             /\ alias_mapping' = m.mapping
             /\ trace_data' = table
             /\ output_file' = dest
             /\ output' = r.output
             /\ outfile' = r.file
             /\ written' = IF dest
                           THEN Append(written, [op |-> "main",
                                                 text |-> Header(doc, friendly_name) \o r.text])
                           ELSE written
             /\ pc' = Ended("main", r.raised)

\* the tool run from the command line
RunMain ==
    /\ pc.calls < MaxCalls
    /\ \E doc \in SampleDocs, table \in SampleTraces, dest \in BOOLEAN,
          friendly_name \in {None, Main} :
           MainCall(doc, table, dest, friendly_name)

\* process_trace called with the mapping built before
CallProcessTrace ==
    /\ pc.calls < MaxCalls
    /\ \E table \in SampleTraces, dest \in BOOLEAN :
           ProcessTraceCall(table, alias_mapping, dest)

Next == RunMain \/ CallProcessTrace

Spec == Init /\ [][Next]_vars

\* the normalizer applied to one event table of at most MaxEvents events
NextSort ==
    /\ pc = Idle
    /\ \E n \in 0..MaxEvents :
           \E evs \in [1..n -> SortEventSet], g \in Groupings(n) :
               ProcessTraceCall(MakeTable(evs, g), SortMapping, FALSE)

SpecSort == Init /\ [][NextSort]_vars

\* the normalizer applied to one event and one mapping
NextAlias ==
    /\ pc = Idle
    /\ \E p \in AliasPaths, m \in AliasMappings :
           ProcessTraceCall(<<BareEntry(Ev(p, TRUE, 11))>>, m, FALSE)

SpecAlias == Init /\ [][NextAlias]_vars

\* the alias mapper applied to one definition document
NextMap ==
    /\ pc = Idle
    /\ \/ \E a \in {None, Main}, n \in 1..MaxSteps :
              \E t \in Values(n) : LoadAutomationCall(TopDoc(a, W_action, t))
       \/ \E doc \in OtherDocuments : LoadAutomationCall(doc)

SpecMap == Init /\ [][NextMap]_vars

----------------------------------------------------------------------------
(* The alias mapper against its specification *)

Mapped == pc.op = "load_automation" /\ pc.status = "returned"

\* The nodes the tree walk gives a path: every element of a list reached
\* (a list nested in a list is an element and is not entered) and every
\* record reached under a key.  chain lists the records above the node,
\* outermost first, as <<path, alias>>.
RECURSIVE WalkNodes(_, _, _, _)
WalkNodes(base, node, chain, asElement) ==
    LET own == IF node.kind = "dict" THEN GetAlias(node.items, 1) ELSE None
        me == [path |-> base, alias |-> own, chain |-> chain,
               how |-> IF asElement THEN "element" ELSE "record"]
        below == Append(chain, <<base, own>>)
    IN IF node.kind = "dict"
       THEN {me} \cup UNION {WalkNodes(Slash(base, node.items[j][1]), node.items[j][2],
                                       below, FALSE) : j \in 1..Len(node.items)}
       ELSE IF asElement THEN {me}
       ELSE IF node.kind = "list"
       THEN UNION {WalkNodes(Slash(base, IntToStr(i - 1)), node.items[i][2],
                             chain, TRUE) : i \in 1..Len(node.items)}
       ELSE {}

DocNodes(doc) ==
    UNION {WalkNodes(doc.items[j][1], doc.items[j][2], <<>>, FALSE) :
           j \in {k \in 1..Len(doc.items) : doc.items[k][2].kind \in {"list", "dict"}}}

\* the scalar values that stand under a key of a record reached by the walk
RECURSIVE ScalarFields(_, _, _)
ScalarFields(base, node, asElement) ==
    IF node.kind = "dict"
    THEN UNION {ScalarFields(Slash(base, node.items[j][1]), node.items[j][2], FALSE)
                : j \in 1..Len(node.items)}
    ELSE IF asElement THEN {}
    ELSE IF node.kind = "list"
    THEN UNION {ScalarFields(Slash(base, IntToStr(i - 1)), node.items[i][2], TRUE)
                : i \in 1..Len(node.items)}
    ELSE {base}

DocScalarFields(doc) ==
    UNION {ScalarFields(doc.items[j][1], doc.items[j][2], FALSE) : j \in 1..Len(doc.items)}

\* exactly one leading '/' removed
StripOneSlash(s) == IF s # <<>> /\ s[1] = "/" THEN Tail(s) ELSE s

Aliased(chain) == {i \in 1..Len(chain) : chain[i][2] # None}

\* the label the specification gives a node
ExpectedLabel(n) ==
    IF n.alias # None THEN n.alias
    ELSE IF Aliased(n.chain) # {}
    THEN LET i == CHOOSE k \in Aliased(n.chain) : \A l \in Aliased(n.chain) : l <= k
         IN n.chain[i][2] \o <<"/", "/">>
            \o StripOneSlash(Drop(n.path, Len(n.chain[i][1])))
    ELSE n.path

\* C3: every path of the returned mapping is the path of a node of the walk,
\* and its label is the node's own alias, else the alias of the nearest
\* aliased record above it followed by "//" and the path below that record,
\* else the path itself.
C3_LabelDerivation ==
    Mapped =>
        \A P \in DOMAIN alias_mapping :
            /\ \E n \in DocNodes(automation) : n.path = P
            /\ \A n \in DocNodes(automation) :
                   n.path = P => alias_mapping[P] = ExpectedLabel(n)

\* the specification's example: {alias: A, then: [{}, {alias: B}]} at action/0
C3_Witness ==
    /\ Mapped
    /\ {P_action0, P_action0then0, P_action0then1} \subseteq DOMAIN alias_mapping
    /\ alias_mapping[P_action0] = A
    /\ alias_mapping[P_action0then0] = A \o <<"/", "/">> \o Slash(W_then, <<"0">>)
    /\ alias_mapping[P_action0then1] = B

\* C4: the returned mapping has a key for every list element and every
\* record the walk reaches, it has no other key, and a scalar standing
\* under a key of a record has no entry.
C4_MappingComplete ==
    Mapped =>
        /\ {n.path : n \in DocNodes(automation)} = DOMAIN alias_mapping
        /\ DocScalarFields(automation) \cap DOMAIN alias_mapping = {}

\* a walk that meets a list element, a record under a key and a scalar field
C4_Witness ==
    /\ Mapped
    /\ \E n \in DocNodes(automation) : n.how = "element" /\ n.path \in DOMAIN alias_mapping
    /\ \E n \in DocNodes(automation) :
           n.how = "record" /\ n.alias = None /\ Aliased(n.chain) = {}
           /\ n.path \in DOMAIN alias_mapping
    /\ DocScalarFields(automation) # {}

\* C9: load_automation returns a mapping, whatever the shape of the document.
C9_MapperNeverRaises ==
    pc.op = "load_automation" => pc.status = "returned"

----------------------------------------------------------------------------
(* The normalizer against its specification *)

Normalized == pc.op = "process_trace" /\ pc.status = "returned"

\* every event of the table, in table order
RECURSIVE TableEvents(_)
TableEvents(table) ==
    IF table = <<>> THEN <<>> ELSE Head(table).events \o TableEvents(Tail(table))

\* the events that have a path
PathEvents(table) ==
    {ev \in {TableEvents(table)[i] : i \in 1..Len(TableEvents(table))} :
        ev.kind = "dict" /\ ev.haspath}

Count(seq, P(_)) == Cardinality({i \in 1..Len(seq) : P(seq[i])})

\* the Display Records of an output, in order
RECURSIVE Records(_)
Records(out) ==
    IF out = <<>> THEN <<>>
    ELSE (IF Head(out).kind = "line" THEN <<Head(out)>> ELSE <<>>) \o Records(Tail(out))

\* the instant a rendered timestamp denotes: its leading digits read back
DigitValue(c) == CHOOSE d \in 0..9 : Digits[d + 1] = c

RECURSIVE ReadInstant(_, _)
ReadInstant(text, acc) ==
    IF text = <<>> \/ Head(text) = " " THEN acc
    ELSE ReadInstant(Tail(text), 10 * acc + DigitValue(Head(text)))

\* the <<path, instant>> pairs of the records, and of the events kept
RecordKeys(recs) == [i \in 1..Len(recs) |-> <<recs[i].path, ReadInstant(recs[i].timestamp, 0)>>]
EventKeys(evs) == [i \in 1..Len(evs) |-> <<evs[i].path, evs[i].timestamp>>]

Positions(seq, x) == {i \in 1..Len(seq) : seq[i] = x}

\* rk is a rearrangement of ek in non-decreasing order of the instants
OrderedRearrangement(rk, ek) ==
    /\ Len(rk) = Len(ek)
    /\ \A i \in 1..Len(ek) :
           Cardinality(Positions(rk, ek[i])) = Cardinality(Positions(ek, ek[i]))
    /\ \A i, j \in 1..Len(rk) : i < j => rk[i][2] <= rk[j][2]

\* the events of a list that have a path, in order
RECURSIVE WithPath(_)
WithPath(evs) ==
    IF evs = <<>> THEN <<>>
    ELSE (IF Head(evs).kind = "dict" /\ Head(evs).haspath THEN <<Head(evs)>> ELSE <<>>)
         \o WithPath(Tail(evs))

\* C1: when every event of the table that has a path has a timestamp, the
\* call returns one Display Record per such event, and the records stand in
\* non-decreasing order of their timestamps.
C1_TimestampOrder ==
    (pc.op = "process_trace" /\ \A ev \in PathEvents(trace_data) : ev.hasts) =>
        /\ pc.status = "returned"
        /\ OrderedRearrangement(RecordKeys(Records(output)),
                                EventKeys(WithPath(TableEvents(trace_data))))

\* the specification's example: T2, then T0 and T1, spread over a bare
\* event and a list of two, come out as T0, T1, T2
C1_Witness ==
    /\ Normalized
    /\ Len(trace_data) = 2
    /\ ~trace_data[1].islist /\ trace_data[2].islist
    /\ trace_data[1].events[1].timestamp = 23
    /\ Len(trace_data[2].events) = 2
    /\ trace_data[2].events[1].timestamp = 11
    /\ trace_data[2].events[2].timestamp = 12
    /\ \A ev \in PathEvents(trace_data) : ev.hasts
    /\ Len(Records(output)) = 3
    /\ [i \in 1..3 |-> ReadInstant(Records(output)[i].timestamp, 0)] = <<11, 12, 23>>

\* C2: a table holding an event with a path and no timestamp is processed
\* normally, and that event's Display Record comes first.
C2_MissingTimestampFirst ==
    (pc.op = "process_trace" /\ \E ev \in PathEvents(trace_data) : ~ev.hasts) =>
        /\ pc.status = "returned"
        /\ Records(output) # <<>>
        /\ \E ev \in PathEvents(trace_data) :
               ~ev.hasts /\ Records(output)[1].path = ev.path

IsRepeat(r) == r.kind = "line" /\ Contains(r.path, W_repeat)
IsMarker(r) == r.kind = "marker"

\* the number of repeat records among the first i entries
RepeatsUpTo(out, i) == Cardinality({k \in 1..i : IsRepeat(out[k])})

MarkersOk(out, evs) ==
    /\ \A i \in 1..Len(out) :
           IsRepeat(out[i]) =>
               /\ i > 1
               /\ out[i - 1].kind = "marker"
               /\ out[i - 1].text = MarkerText(RepeatsUpTo(out, i))
    /\ \A i \in 1..Len(out) :
           IsMarker(out[i]) => i < Len(out) /\ IsRepeat(out[i + 1])
    /\ Count(out, IsMarker) = Count(out, IsRepeat)
    /\ Count(out, IsRepeat)
           = Cardinality({i \in 1..Len(evs) : Contains(evs[i].path, W_repeat)})

\* C6: in the returned output every record whose path contains `repeat` is
\* directly preceded by the marker carrying the number of such records up
\* to and including it, every marker directly precedes such a record, and
\* there are as many markers as events whose path contains `repeat`.
C6_IterationMarkers ==
    Normalized => MarkersOk(output, WithPath(TableEvents(trace_data)))

\* the specification's example: a repeat path, another path, a repeat path
C6_Witness ==
    /\ Normalized
    /\ Len(output) = 5
    /\ output[1].text = MarkerText(1) /\ IsRepeat(output[2])
    /\ output[3].kind = "line" /\ ~IsRepeat(output[3])
    /\ output[4].text = MarkerText(2) /\ IsRepeat(output[5])

----------------------------------------------------------------------------
(* Alias resolution against its specification *)

\* the six (from, to) pairs, in their fixed order
Pairs ==
    << <<W_action \o SL, W_actions \o SL>>, <<W_actions \o SL, W_action \o SL>>,
       <<W_condition \o SL, W_conditions \o SL>>, <<W_conditions \o SL, W_condition \o SL>>,
       <<W_trigger \o SL, W_triggers \o SL>>, <<W_triggers \o SL, W_trigger \o SL>> >>

\* where old occurs in p
Occurrences(p, old) ==
    {i \in 1..(Len(p) - Len(old) + 1) : SubSeq(p, i, i + Len(old) - 1) = old}

\* p with the occurrences of old that start at the positions occ made new
RECURSIVE RewriteAt(_, _, _, _, _)
RewriteAt(p, old, new, occ, i) ==
    IF i > Len(p) THEN <<>>
    ELSE IF i \in occ THEN new \o RewriteAt(p, old, new, occ, i + Len(old))
    ELSE <<p[i]>> \o RewriteAt(p, old, new, occ, i + 1)

EveryOccurrence(p, old, new) == RewriteAt(p, old, new, Occurrences(p, old), 1)

FirstOccurrence(p, old, new) ==
    LET occ == Occurrences(p, old)
    IN RewriteAt(p, old, new,
                 IF occ = {} THEN {} ELSE {CHOOSE i \in occ : \A k \in occ : i <= k}, 1)

\* the alias the specification gives a path: the mapping's value for the
\* path, else for the first variant V that is a key, else the path
Resolved(mapping, path, V(_, _, _)) ==
    LET hits == {i \in 1..Len(Pairs) : V(path, Pairs[i][1], Pairs[i][2]) \in DOMAIN mapping}
    IN IF path \in DOMAIN mapping THEN mapping[path]
       ELSE IF hits = {} THEN path
       ELSE LET i == CHOOSE h \in hits : \A k \in hits : h <= k
            IN mapping[V(path, Pairs[i][1], Pairs[i][2])]

Twice(path) == \E i \in 1..Len(Pairs) : Cardinality(Occurrences(path, Pairs[i][1])) >= 2

\* C5: a look-up never raises, and every record's alias is the mapping's
\* value for its path when the path is a key, else the value for the first
\* of the six variants that is a key, else the path itself.
C5_AliasResolution ==
    (pc.op = "process_trace" /\ \A ev \in PathEvents(trace_data) : ev.hasts) =>
        /\ pc.status = "returned"
        /\ \A i \in 1..Len(output) :
               output[i].kind = "line" =>
                   output[i].alias = Resolved(alias_mapping, output[i].path, EveryOccurrence)

\* the specification's example: actions/0 -> "Turn on light", no action/0
C5_Witness ==
    /\ Normalized
    /\ P_actions0 \in DOMAIN alias_mapping
    /\ P_action0 \notin DOMAIN alias_mapping
    /\ Len(output) = 1
    /\ output[1].path = P_action0
    /\ output[1].alias = W_light

\* C10 as stated: the variant looked up has only the first occurrence of the
\* source segment rewritten.
C10_FirstOccurrenceOnly ==
    Normalized =>
        \A i \in 1..Len(output) :
            (output[i].kind = "line" /\ output[i].path \notin DOMAIN alias_mapping) =>
                output[i].alias = Resolved(alias_mapping, output[i].path, FirstOccurrence)

\* C10 amended: for a path that holds a source segment twice, the variant
\* looked up has every occurrence rewritten; the path with only its first
\* occurrence rewritten is not looked up.
C10_EveryOccurrenceRewritten ==
    Normalized =>
        \A i \in 1..Len(output) :
            (output[i].kind = "line" /\ Twice(output[i].path)
             /\ output[i].path \notin DOMAIN alias_mapping) =>
                /\ output[i].alias = Resolved(alias_mapping, output[i].path, EveryOccurrence)
                /\ (\A k \in 1..Len(Pairs) :
                        EveryOccurrence(output[i].path, Pairs[k][1], Pairs[k][2])
                            \notin DOMAIN alias_mapping)
                   => output[i].alias = output[i].path

\* action/0/action/1 resolved through actions/0/actions/1 although
\* actions/0/action/1 is a key too
C10_Witness ==
    /\ Normalized
    /\ Len(output) = 1
    /\ output[1].path = P_twice
    /\ {P_twice_first, P_twice_every} \subseteq DOMAIN alias_mapping
    /\ output[1].alias = alias_mapping[P_twice_every]
    /\ output[1].alias # alias_mapping[P_twice_first]

----------------------------------------------------------------------------
(* The output destination *)

\* C7: a call of process_trace with a destination leaves what the
\* destination held as a prefix and adds the formatted text of the output
\* it returns; a call without a destination, or one that raises, leaves the
\* destination alone.
C7_NormalizerAppends ==
    [][(pc'.op = "process_trace" /\ pc'.calls = pc.calls + 1) =>
          IF pc'.status = "returned" /\ output_file'
          THEN outfile' = outfile \o JoinLines(format_output(output'))
          ELSE outfile' = outfile]_vars

\* two calls of process_trace against the destination: the first call's
\* text, then the second's
C7_Witness ==
    /\ Normalized /\ output_file
    /\ Len(written) = 2
    /\ written[1].op = "process_trace" /\ written[2].op = "process_trace"
    /\ written[1].text # <<>> /\ written[2].text # <<>>
    /\ outfile = written[1].text \o written[2].text

\* C8 as stated: after main ran twice against the destination, it holds
\* what the first run wrote followed by what the second wrote.
C8_MainAccumulates ==
    (Len(written) = 2 /\ written[1].op = "main" /\ written[2].op = "main") =>
        outfile = written[1].text \o written[2].text

\* C8 amended: main opens the destination for writing before process_trace
\* appends to it, so after a run of main with a destination the destination
\* holds what this run wrote (its header, then the formatted text of its
\* output) and nothing of an earlier run.
C8_MainRestartsFile ==
    (pc.op = "main" /\ pc.status = "returned" /\ output_file) =>
        /\ written # <<>>
        /\ outfile = written[Len(written)].text
        /\ Head(outfile) = "[PARAMETERS]"
        /\ LET text == JoinLines(format_output(output))
           IN SubSeq(outfile, Len(outfile) - Len(text) + 1, Len(outfile)) = text

\* a second run of main over what the first run wrote
C8_Witness ==
    /\ pc.op = "main" /\ pc.status = "returned" /\ output_file
    /\ Len(written) = 2
    /\ written[1].op = "main" /\ written[1].text # <<>>
    /\ outfile = written[2].text

====
